---- MODULE Spec2Model ----
(***************************************************************************)
(* L402 helpers of hls.js: the macaroon decoders (v2 tag/length/value and  *)
(* v1 packets), the caveat aggregation, the challenge parsers and the      *)
(* Authorization header injection, as state machines over small inputs.    *)
(*                                                                         *)
(* A JavaScript string is modelled as the sequence of its UTF-16 code      *)
(* units, a Uint8Array as a sequence of numbers in 0..255.  Positions are  *)
(* the source's 0-based positions: data[pos] of the source is data[pos+1]  *)
(* here.                                                                   *)
(***************************************************************************)
EXTENDS Integers, Sequences, FiniteSets, TLC

VARIABLES
  data,   \* the Uint8Array being decoded
  v2,     \* extractCaveatsV2: pos, isFirstSection, caveats, and whether the loop was left
  v1,     \* extractCaveatsV1: pos, caveats, and whether the loop was left
  fac,    \* extractCaveatsFromMacaroon and the two getters: input, where the call is, results
  obs,    \* what the v2 decoder has read so far (history, not program state)
  enc,    \* the macaroon a truncated buffer was cut from (history, not program state)
  chal,   \* parseL402Challenge: the two headers of one challenge and what each parser returned
  hdr     \* applyL402Header: the loader context, the token, the clock and the last call

vars == <<data, v2, v1, fac, obs, enc, chal, hdr>>

\* ------------------------------------------------------------ bounds
\* Longest body (the bytes after the version byte) of an arbitrary v2 buffer.
MaxBody == 6
\* How far below index 0 the model follows the decoder's read position.
MaxUnderrun == 2
\* Most caveats of an encoded macaroon.
MaxCaveats == 2

\* A decode is followed until it has captured more than this many caveats.
MaxCaptured == 4
\* Length of the long caveat identifier (its length takes a two-byte varint).
LongLen == 128
\* Most packets of a v1 buffer.
MaxPackets == 2
\* Most 4-character groups of a base64 input (a shorter tail may follow).
MaxQuads == 3

\* ------------------------------------------------------------ constants
FIELD_EOS == 0
FIELD_IDENTIFIER == 2
FIELD_SIGNATURE == 6

\* ------------------------------------------------- 32-bit integer helpers
\* A 32-bit word is the set of its bit positions that are 1 (0 is the lowest):
\* a | b is the union, and x << s moves every bit up by s modulo 32 and drops
\* what leaves the word.
Pow2Table ==
  <<1, 2, 4, 8, 16, 32, 64, 128, 256, 512, 1024, 2048, 4096, 8192, 16384, 32768,
    65536, 131072, 262144, 524288, 1048576, 2097152, 4194304, 8388608, 16777216,
    33554432, 67108864, 134217728, 268435456, 536870912, 1073741824>>

\* 2^n for n in 0..30.
Pow2(n) == Pow2Table[n + 1]

\* The bits of b & 0x7f.
Low7Bits(b) == {i \in 0..6 : (b \div Pow2(i)) % 2 = 1}

\* (b & 0x7f) << shift of JavaScript: the shift count is taken modulo 32.
ShiftLeft(b, shift) == {i + (shift % 32) : i \in Low7Bits(b)} \cap (0..31)

RECURSIVE SumBits(_, _)
SumBits(B, i) ==
  IF i < 0 THEN 0 ELSE (IF i \in B THEN Pow2(i) ELSE 0) + SumBits(B, i - 1)

\* The word read as a signed 32-bit number (bit 31 is worth -2^31).
Int32(B) ==
  IF 31 \in B THEN (SumBits(B, 30) - 2147483647) - 1 ELSE SumBits(B, 30)

\* ------------------------------------------------------------ readVarint
\* One read of data[pos]: inside the buffer the byte, outside it undefined, which
\* the bitwise operators of the source turn into 0.
InBuffer(d, pos) == pos >= 0 /\ pos < Len(d)

ByteAt(d, pos) == IF InBuffer(d, pos) THEN d[pos + 1] ELSE 0

RECURSIVE readVarintFrom(_, _, _, _, _)
readVarintFrom(d, pos, value, shift, oob) ==
  IF pos < Len(d)
  THEN LET b == ByteAt(d, pos)
           v == value \cup ShiftLeft(b, shift)
           o == oob \/ ~InBuffer(d, pos)
       IN  IF b < 128
           THEN [value |-> Int32(v), pos |-> pos + 1, oob |-> o]
           ELSE readVarintFrom(d, pos + 1, v, shift + 7, o)
  ELSE [value |-> Int32(value), pos |-> pos, oob |-> oob]

readVarint(d, pos) == readVarintFrom(d, pos, {}, 0, FALSE)

\* bytesToString: one code unit per byte, String.fromCharCode(data[start + i]).
bytesToString(d, start, len) ==
  IF len <= 0 THEN <<>> ELSE [i \in 1..len |-> ByteAt(d, start + i - 1)]

bytesToStringOob(d, start, len) ==
  \E i \in 0..(len - 1) : ~InBuffer(d, start + i)

\* ------------------------------------------------------ extractCaveatsV2
V2Start == [pos |-> 1, isFirstSection |-> TRUE, caveats |-> <<>>, done |-> FALSE]

\* V2Body with the isFirstSection test of the capture left out.
V2BodyCaptureAll(d, st) ==
  LET t == readVarint(d, st.pos)
  IN  IF t.value = FIELD_EOS
      THEN [st EXCEPT !.pos = t.pos, !.isFirstSection = FALSE]
      ELSE LET l == readVarint(d, t.pos)
           IN  IF l.value > Len(d) - l.pos
               THEN [st EXCEPT !.pos = l.pos, !.done = TRUE]
               ELSE LET cav == IF t.value = FIELD_IDENTIFIER
                               THEN Append(st.caveats, bytesToString(d, l.pos, l.value))
                               ELSE st.caveats
                    IN  IF t.value = FIELD_SIGNATURE
                        THEN [st EXCEPT !.pos = l.pos, !.caveats = cav, !.done = TRUE]
                        ELSE [st EXCEPT !.pos = l.pos + l.value, !.caveats = cav]

\* V2Body with the signature field skipped like any other field.
V2BodyNoSignatureBreak(d, st) ==
  LET t == readVarint(d, st.pos)
  IN  IF t.value = FIELD_EOS
      THEN [st EXCEPT !.pos = t.pos, !.isFirstSection = FALSE]
      ELSE LET l == readVarint(d, t.pos)
           IN  IF l.value > Len(d) - l.pos
               THEN [st EXCEPT !.pos = l.pos, !.done = TRUE]
               ELSE LET cav == IF t.value = FIELD_IDENTIFIER /\ ~st.isFirstSection
                               THEN Append(st.caveats, bytesToString(d, l.pos, l.value))
                               ELSE st.caveats
                    IN  [st EXCEPT !.pos = l.pos + l.value, !.caveats = cav]

\* One pass through the body of the while loop (the loop condition holds).
V2Body(d, st) ==
  LET t == readVarint(d, st.pos)
  IN  IF t.value = FIELD_EOS
      THEN [st EXCEPT !.pos = t.pos, !.isFirstSection = FALSE]
      ELSE LET l == readVarint(d, t.pos)
           IN  IF l.value > Len(d) - l.pos
               THEN [st EXCEPT !.pos = l.pos, !.done = TRUE]
               ELSE LET cav == IF t.value = FIELD_IDENTIFIER /\ ~st.isFirstSection
                               THEN Append(st.caveats, bytesToString(d, l.pos, l.value))
                               ELSE st.caveats
                    IN  IF t.value = FIELD_SIGNATURE
                        THEN [st EXCEPT !.pos = l.pos, !.caveats = cav, !.done = TRUE]
                        ELSE [st EXCEPT !.pos = l.pos + l.value, !.caveats = cav]

\* The loop: its condition, then its body; the loop is left when the condition fails.
V2Iter(d, st) ==
  IF st.pos < Len(d) THEN V2Body(d, st) ELSE [st EXCEPT !.done = TRUE]

\* ----------------------------------------------- what a pass reads (observer)
\* The field a pass starting at pos meets: its type, whether it overruns the
\* buffer, and whether any byte was read outside the buffer.
V2Field(d, pos) ==
  LET t == readVarint(d, pos)
      l == readVarint(d, t.pos)
      eos == t.value = FIELD_EOS
      over == ~eos /\ l.value > Len(d) - l.pos
  IN  [type |-> t.value,
       overrun |-> over,
       oob |-> t.oob \/ (~eos /\ l.oob)
               \/ (~eos /\ ~over /\ bytesToStringOob(d, l.pos, l.value))]

\* iters counts the passes of the loop, up to one more than the buffer has bytes.
ObsStart == [iters |-> 0, oob |-> FALSE, eosSeen |-> FALSE, endSeen |-> FALSE]

Min(a, b) == IF a < b THEN a ELSE b

ObsNext(d, st, o) ==
  IF st.pos < Len(d)
  THEN LET f == V2Field(d, st.pos)
       IN  [iters |-> Min(o.iters + 1, Len(d) + 1),
            oob |-> o.oob \/ f.oob,
            eosSeen |-> o.eosSeen \/ f.type = FIELD_EOS,
            endSeen |-> o.endSeen \/ f.overrun \/ f.type = FIELD_SIGNATURE]
  ELSE o

\* ------------------------------------------------------------ SpecV2
ByteAlphabet == {0, 2, 6, 15, 250, 255}

\* The sequences over S of length at most n.
SeqsUpTo(S, n) == UNION {[1..k -> S] : k \in 0..n}

NoEnc == [caveats |-> <<>>, full |-> <<>>, cut |-> 0]

NotCalled == [called |-> FALSE]

NoContext == [hasHeaders |-> FALSE, headers |-> {}]

NoToken == [null |-> TRUE, credential |-> <<>>, hasExpiry |-> FALSE, expiry |-> 0]

NoHdr == [context |-> NoContext, token |-> NoToken, now |-> 0, before |-> NoContext, calls |-> 0]

NoChal ==
  [macaroon |-> <<>>, invoice |-> <<>>, invoiceFirst |-> <<>>, macaroonFirst |-> <<>>,
   parsed |-> [p \in {} |-> NotCalled]]

\* ------------------------------------------------------ extractCaveatsV1
\* WhiteSpace and LineTerminator code units below 256 (skipped by parseInt,
\* removed by trim, matched by \s).
IsWhiteSpace(c) == c \in {9, 10, 11, 12, 13, 32, 160}

IsHexDigit(c) == (c >= 48 /\ c <= 57) \/ (c >= 65 /\ c <= 70) \/ (c >= 97 /\ c <= 102)

HexDigitValue(c) == IF c <= 57 THEN c - 48 ELSE IF c <= 70 THEN c - 55 ELSE c - 87

RECURSIVE SkipWhiteSpace(_)
SkipWhiteSpace(s) ==
  IF s # <<>> /\ IsWhiteSpace(Head(s)) THEN SkipWhiteSpace(Tail(s)) ELSE s

RECURSIVE HexPrefixValue(_, _)
\* The value of the longest prefix of s made of hex digits, after acc.
HexPrefixValue(s, acc) ==
  IF s # <<>> /\ IsHexDigit(Head(s))
  THEN HexPrefixValue(Tail(s), 16 * acc + HexDigitValue(Head(s)))
  ELSE acc

\* parseInt(s, 16): leading white space is skipped, then an optional sign, then
\* an optional 0x or 0X; the digits are the longest run of hex digits that
\* follows, whatever comes after them; NaN when that run is empty.
parseInt16(s) ==
  LET t == SkipWhiteSpace(s)
      signed == t # <<>> /\ Head(t) \in {43, 45}
      u == IF signed THEN Tail(t) ELSE t
      w == IF Len(u) >= 2 /\ u[1] = 48 /\ u[2] \in {88, 120} THEN Tail(Tail(u)) ELSE u
      n == HexPrefixValue(w, 0)
  IN  IF w = <<>> \/ ~IsHexDigit(Head(w))
      THEN [nan |-> TRUE, value |-> 0]
      ELSE [nan |-> FALSE, value |-> IF signed /\ Head(t) = 45 THEN -n ELSE n]

\* s.indexOf(c), 0-based, -1 when absent.
IndexOf(s, c) ==
  IF \E i \in 1..Len(s) : s[i] = c
  THEN (CHOOSE i \in 1..Len(s) : s[i] = c /\ \A j \in 1..(i - 1) : s[j] # c) - 1
  ELSE -1

\* s.slice(from) and s.slice(0, to) for 0 <= from, to <= length.
SliceFrom(s, from) == SubSeq(s, from + 1, Len(s))

SliceTo(s, to) == SubSeq(s, 1, to)

CID == <<99, 105, 100>>  \* "cid"

V1Start == [pos |-> 0, caveats |-> <<>>, done |-> FALSE]

\* The caveats after the packet whose text after the length is packetData.
V1Capture(caveats, packetData) ==
  LET spaceIdx == IndexOf(packetData, 32)
      key == SliceTo(packetData, spaceIdx)
      value == SliceFrom(packetData, spaceIdx + 1)
  IN  IF spaceIdx > -1 /\ key = CID
      THEN Append(caveats,
                  IF value # <<>> /\ value[Len(value)] = 10
                  THEN SliceTo(value, Len(value) - 1) ELSE value)
      ELSE caveats

V1Body(d, st) ==
  LET lenHex == bytesToString(d, st.pos, 4)
      packetLen == parseInt16(lenHex)
  IN  IF packetLen.nan \/ packetLen.value < 9 \/ st.pos + packetLen.value > Len(d)
      THEN [st EXCEPT !.done = TRUE]
      ELSE [st EXCEPT
              !.caveats = V1Capture(st.caveats,
                                    bytesToString(d, st.pos + 4, packetLen.value - 4)),
              !.pos = st.pos + packetLen.value]

V1Iter(d, st) ==
  IF st.pos + 8 < Len(d) THEN V1Body(d, st) ELSE [st EXCEPT !.done = TRUE]

\* ------------------------------------------------------------ actions
\* got holds the getters that have returned ("maxBandwidth", "expiration").
NoFac ==
  [input |-> <<>>, pc |-> "idle", result |-> <<>>, threw |-> FALSE,
   got |-> {}, maxBandwidth |-> 0, expiration |-> 0]

V2Step ==
  /\ fac.pc = "v2"
  /\ ~v2.done
  /\ v2.pos >= -MaxUnderrun
  /\ Len(v2.caveats) <= MaxCaptured
  /\ v2' = V2Iter(data, v2)
  /\ obs' = ObsNext(data, v2, obs)
  /\ UNCHANGED <<data, v1, fac, enc, chal, hdr>>

V1Step ==
  /\ fac.pc = "v1"
  /\ ~v1.done
  /\ v1' = V1Iter(data, v1)
  /\ UNCHANGED <<data, v2, fac, obs, enc, chal, hdr>>

\* ------------------------------------------------------------ SpecV2
\* extractCaveatsV2 over every buffer that starts with the version byte.
InitV2 ==
  /\ data \in {<<2>> \o b : b \in SeqsUpTo(ByteAlphabet, MaxBody)}
  /\ v2 = V2Start
  /\ v1 = V1Start
  /\ fac = [NoFac EXCEPT !.pc = "v2"]
  /\ obs = ObsStart
  /\ enc = NoEnc
  /\ chal = NoChal
  /\ hdr = NoHdr

NextV2 == V2Step

SpecV2 == InitV2 /\ [][NextV2]_vars

\* ------------------------------------------------------------ SpecV1
\* "000a" "000A" "0x0a" " 00a" "00a;" "zzzz" "0008" "0014" "-00a"
V1Prefixes ==
  {<<48, 48, 48, 97>>, <<48, 48, 48, 65>>, <<48, 120, 48, 97>>, <<32, 48, 48, 97>>,
   <<48, 48, 97, 59>>, <<122, 122, 122, 122>>, <<48, 48, 48, 56>>,
   <<48, 48, 49, 52>>, <<45, 48, 48, 97>>}

\* "cid a\n" "cid ab" "vid a\n" "cidab\n"
V1Bodies ==
  {<<99, 105, 100, 32, 97, 10>>, <<99, 105, 100, 32, 97, 98>>,
   <<118, 105, 100, 32, 97, 10>>, <<99, 105, 100, 97, 98, 10>>}

V1Packets == {p \o b : p \in V1Prefixes, b \in V1Bodies}

RECURSIVE Concat(_)
Concat(ss) == IF ss = <<>> THEN <<>> ELSE Head(ss) \o Concat(Tail(ss))

InitV1 ==
  /\ data \in {Concat(ps) \o t : ps \in SeqsUpTo(V1Packets, MaxPackets),
                                 t \in {<<>>, <<10>>}}
  /\ v2 = V2Start
  /\ v1 = V1Start
  /\ fac = [NoFac EXCEPT !.pc = "v1"]
  /\ obs = ObsStart
  /\ enc = NoEnc
  /\ chal = NoChal
  /\ hdr = NoHdr

NextV1 == V1Step

SpecV1 == InitV1 /\ [][NextV1]_vars

\* ------------------------------------------------ v2 encoder (synthetic)
\* An unsigned varint: 7 bits per byte, lowest first, the high bit set on every
\* byte but the last.
RECURSIVE EncodeVarint(_)
EncodeVarint(n) ==
  IF n < 128 THEN <<n>> ELSE <<128 + (n % 128)>> \o EncodeVarint(n \div 128)

EncodeField(type, bytes) == EncodeVarint(type) \o EncodeVarint(Len(bytes)) \o bytes

RECURSIVE EncodeCaveats(_)
EncodeCaveats(C) ==
  IF C = <<>> THEN <<>>
  ELSE EncodeField(FIELD_IDENTIFIER, Head(C)) \o <<FIELD_EOS>> \o EncodeCaveats(Tail(C))

\* version | [location] identifier EOS | (identifier EOS)* | EOS | signature
EncodeV2(location, identifier, C, signature) ==
  <<2>> \o (IF location = <<>> THEN <<>> ELSE EncodeField(1, location))
        \o EncodeField(FIELD_IDENTIFIER, identifier) \o <<FIELD_EOS>>
        \o EncodeCaveats(C) \o <<FIELD_EOS>>
        \o EncodeField(FIELD_SIGNATURE, signature)

LongCaveat == [i \in 1..LongLen |-> 97]

\* Caveat identifiers: the empty one, "a", bytes that read as an identifier
\* field followed by EOS, a byte that reads as a signature type, a long one.
CaveatIds == {<<>>, <<97>>, <<2, 0>>, <<6>>, LongCaveat}

Locations == {<<>>, <<108>>}

HeaderIds == {<<104>>, <<2, 6>>}

IsPrefix(s, t) == Len(s) <= Len(t) /\ \A i \in 1..Len(s) : s[i] = t[i]

\* ------------------------------------------------------------ SpecEnc
\* extractCaveatsV2 over every prefix of every encoded macaroon.
InitEnc ==
  \E loc \in Locations, id \in HeaderIds, C \in SeqsUpTo(CaveatIds, MaxCaveats) :
    LET B == EncodeV2(loc, id, C, <<115>>)
    IN  \E k \in 0..Len(B) :
          /\ enc = [caveats |-> C, full |-> B, cut |-> k]
          /\ data = SubSeq(B, 1, k)
          /\ v2 = V2Start
          /\ v1 = V1Start
          /\ fac = [NoFac EXCEPT !.pc = "v2"]
          /\ obs = ObsStart
          /\ chal = NoChal
          /\ hdr = NoHdr

SpecEnc == InitEnc /\ [][NextV2]_vars

\* ------------------------------------------------------------ base64ToBytes
\* The value of a character of the base64 alphabet, -1 for any other code unit.
Base64Value(c) ==
  IF c >= 65 /\ c <= 90 THEN c - 65
  ELSE IF c >= 97 /\ c <= 122 THEN c - 71
  ELSE IF c >= 48 /\ c <= 57 THEN c + 4
  ELSE IF c = 43 THEN 62
  ELSE IF c = 47 THEN 63
  ELSE -1

\* str.replace(/-/g, '+').replace(/_/g, '/')
ToStandardAlphabet(s) ==
  [i \in 1..Len(s) |-> IF s[i] = 45 THEN 43 ELSE IF s[i] = 95 THEN 47 ELSE s[i]]

\* while (b64.length % 4) b64 += '='
PadTo4(s) == s \o [i \in 1..((4 - (Len(s) % 4)) % 4) |-> 61]

IsAsciiWhitespace(c) == c \in {9, 10, 12, 13, 32}

RemoveAsciiWhitespace(s) == SelectSeq(s, LAMBDA c : ~IsAsciiWhitespace(c))

\* If the length is a multiple of 4, one or two trailing '=' are removed.
StripPadding(s) ==
  IF Len(s) % 4 # 0 \/ s = <<>> \/ s[Len(s)] # 61 THEN s
  ELSE IF Len(s) >= 2 /\ s[Len(s) - 1] = 61 THEN SubSeq(s, 1, Len(s) - 2)
  ELSE SubSeq(s, 1, Len(s) - 1)

\* 4 characters give 3 bytes, a last group of 3 gives 2, of 2 gives 1: byte j
\* (0-based) of group g is cut from characters 4g+1 .. 4g+4.
DecodeSextets(s) ==
  [k \in 1..((Len(s) * 3) \div 4) |->
     LET g == 4 * ((k - 1) \div 3)
         r == (k - 1) % 3
     IN  IF r = 0 THEN Base64Value(s[g + 1]) * 4 + (Base64Value(s[g + 2]) \div 16)
         ELSE IF r = 1
         THEN (Base64Value(s[g + 2]) % 16) * 16 + (Base64Value(s[g + 3]) \div 4)
         ELSE (Base64Value(s[g + 3]) % 4) * 64 + Base64Value(s[g + 4])]

\* atob (forgiving-base64 decode): throws on a character outside the alphabet
\* and on a length that is 1 modulo 4.
atob(s) ==
  LET t == StripPadding(RemoveAsciiWhitespace(s))
  IN  IF Len(t) % 4 = 1 \/ \E i \in 1..Len(t) : Base64Value(t[i]) = -1
      THEN [ok |-> FALSE, bytes |-> <<>>]
      ELSE [ok |-> TRUE, bytes |-> DecodeSextets(t)]

base64ToBytes(str) == atob(PadTo4(ToStandardAlphabet(str)))

\* ------------------------------------------- extractCaveatsFromMacaroon
\* The call up to the decoder it hands the buffer to; an exception of
\* base64ToBytes is caught and gives the empty list.
FacadeCall ==
  /\ fac.pc = "call"
  /\ LET r == base64ToBytes(fac.input)
     IN  IF ~r.ok
         THEN /\ fac' = [fac EXCEPT !.pc = "returned", !.result = <<>>, !.threw = TRUE]
              /\ UNCHANGED <<data, v2, v1>>
         ELSE /\ data' = r.bytes
              /\ IF Len(r.bytes) < 2
                 THEN /\ fac' = [fac EXCEPT !.pc = "returned", !.result = <<>>]
                      /\ UNCHANGED <<v2, v1>>
                 ELSE IF r.bytes[1] = 2
                 THEN /\ fac' = [fac EXCEPT !.pc = "v2"]
                      /\ v2' = V2Start
                      /\ UNCHANGED v1
                 ELSE /\ fac' = [fac EXCEPT !.pc = "v1"]
                      /\ v1' = V1Start
                      /\ UNCHANGED v2
  /\ UNCHANGED <<obs, enc, chal, hdr>>

\* return extractCaveatsV2(data) / return extractCaveatsV1(data)
FacadeReturn ==
  /\ \/ fac.pc = "v2" /\ v2.done /\ fac' = [fac EXCEPT !.pc = "returned", !.result = v2.caveats]
     \/ fac.pc = "v1" /\ v1.done /\ fac' = [fac EXCEPT !.pc = "returned", !.result = v1.caveats]
  /\ UNCHANGED <<data, v2, v1, obs, enc, chal, hdr>>

\* ------------------------------------------------------------ decodeCaveat
MAX_BANDWIDTH_CONDITION ==  \* "max_bandwidth"
  <<109, 97, 120, 95, 98, 97, 110, 100, 119, 105, 100, 116, 104>>

EXPIRATION_CONDITION ==  \* "expiration"
  <<101, 120, 112, 105, 114, 97, 116, 105, 111, 110>>

IsComparator(c) == c \in {61, 60, 62}  \* '=' '<' '>'

\* String.prototype.trim on code units below 256.
Trim(s) ==
  LET keep == {i \in 1..Len(s) : ~IsWhiteSpace(s[i])}
  IN  IF keep = {} THEN <<>>
      ELSE SubSeq(s, CHOOSE i \in keep : \A j \in keep : i <= j,
                     CHOOSE i \in keep : \A j \in keep : i >= j)

\* found is FALSE for the null result.
decodeCaveat(str) ==
  LET at == {i \in 1..Len(str) : IsComparator(str[i])}
  IN  IF at = {}
      THEN [found |-> FALSE, condition |-> <<>>, comp |-> 0, value |-> <<>>]
      ELSE LET i == CHOOSE i \in at : \A j \in at : i <= j
           IN  [found |-> TRUE,
                condition |-> Trim(SubSeq(str, 1, i - 1)),
                comp |-> str[i],
                value |-> Trim(SubSeq(str, i + 1, Len(str)))]

IsDigit(c) == c >= 48 /\ c <= 57

RECURSIVE DecimalValue(_, _)
DecimalValue(s, acc) ==
  IF s = <<>> THEN acc ELSE DecimalValue(Tail(s), 10 * acc + (Head(s) - 48))

\* Number(s) for strings without '.', exponent or "Infinity": white space is
\* trimmed, the empty string is 0, an optional sign and decimal digits, or 0x and
\* hex digits, give their value, anything else NaN.
Number(s) ==
  LET t == Trim(s)
      signed == t # <<>> /\ t[1] \in {43, 45}
      u == IF signed THEN Tail(t) ELSE t
  IN  IF t = <<>> THEN [nan |-> FALSE, value |-> 0]
      ELSE IF u # <<>> /\ \A i \in 1..Len(u) : IsDigit(u[i])
      THEN [nan |-> FALSE,
            value |-> IF t[1] = 45 THEN -DecimalValue(u, 0) ELSE DecimalValue(u, 0)]
      ELSE IF Len(t) >= 3 /\ t[1] = 48 /\ t[2] \in {88, 120}
              /\ \A i \in 3..Len(t) : IsHexDigit(t[i])
      THEN [nan |-> FALSE, value |-> HexPrefixValue(SubSeq(t, 3, Len(t)), 0)]
      ELSE [nan |-> TRUE, value |-> 0]

\* Number(v) || 0
NumberOrZero(v) == IF Number(v).nan THEN 0 ELSE Number(v).value

\* --------------------- getMaxBandwidthFromMacaroon / getExpirationFromMacaroon
RECURSIVE CaveatLoopFirstWins(_, _, _)
\* The loop leaving at the first caveat of the condition.
CaveatLoopFirstWins(caveats, condition, value) ==
  IF caveats = <<>> THEN value
  ELSE LET cav == decodeCaveat(Head(caveats))
       IN  IF cav.found /\ cav.condition = condition
           THEN NumberOrZero(cav.value)
           ELSE CaveatLoopFirstWins(Tail(caveats), condition, value)

RECURSIVE CaveatLoop(_, _, _)
\* for (const cavStr of caveats): a caveat of the condition overwrites the value.
CaveatLoop(caveats, condition, value) ==
  IF caveats = <<>> THEN value
  ELSE LET cav == decodeCaveat(Head(caveats))
       IN  CaveatLoop(Tail(caveats), condition,
                      IF cav.found /\ cav.condition = condition
                      THEN NumberOrZero(cav.value) ELSE value)

\* The getters, once extractCaveatsFromMacaroon has returned its list.
GetMaxBandwidth ==
  /\ fac.pc = "returned"
  /\ "maxBandwidth" \notin fac.got
  /\ fac' = [fac EXCEPT !.got = @ \cup {"maxBandwidth"},
                        !.maxBandwidth = CaveatLoop(fac.result, MAX_BANDWIDTH_CONDITION, 0)]
  /\ UNCHANGED <<data, v2, v1, obs, enc, chal, hdr>>

GetExpiration ==
  /\ fac.pc = "returned"
  /\ "expiration" \notin fac.got
  /\ fac' = [fac EXCEPT !.got = @ \cup {"expiration"},
                        !.expiration = CaveatLoop(fac.result, EXPIRATION_CONDITION, 0)]
  /\ UNCHANGED <<data, v2, v1, obs, enc, chal, hdr>>

\* ------------------------------------------------------------ SpecFacade
\* "AgH6" "////" "Dw==" "AgAC" "MDAw" "A-_!"
Quads ==
  {<<65, 103, 72, 54>>, <<47, 47, 47, 47>>, <<68, 119, 61, 61>>,
   <<65, 103, 65, 67>>, <<77, 68, 65, 119>>, <<65, 45, 95, 33>>}

\* "" "A" "Ag" "A g" "AgI="
Tails == {<<>>, <<65>>, <<65, 103>>, <<65, 32, 103>>, <<65, 103, 73, 61>>}

\* "not-valid-base64!!"
NotValidBase64 ==
  <<110, 111, 116, 45, 118, 97, 108, 105, 100, 45, 98, 97, 115, 101, 54, 52, 33, 33>>

InitFacade ==
  /\ fac \in {[NoFac EXCEPT !.input = i, !.pc = "call"] :
                i \in {Concat(q) \o t : q \in SeqsUpTo(Quads, MaxQuads), t \in Tails}
                        \cup {NotValidBase64}}
  /\ data = <<>>
  /\ v2 = V2Start
  /\ v1 = V1Start
  /\ obs = ObsStart
  /\ enc = NoEnc
  /\ chal = NoChal
  /\ hdr = NoHdr

NextFacade ==
  FacadeCall \/ V2Step \/ V1Step \/ FacadeReturn \/ GetMaxBandwidth \/ GetExpiration

SpecFacade == InitFacade /\ [][NextFacade]_vars

\* ------------------------------------------------------------ SpecAgg
\* "500" "250" "x" " 42 "
CaveatValues == {<<53, 48, 48>>, <<50, 53, 48>>, <<120>>, <<32, 52, 50, 32>>}

\* "max_bandwidth" "expiration" " max_bandwidth "
CaveatConditions ==
  {MAX_BANDWIDTH_CONDITION, EXPIRATION_CONDITION,
   <<32>> \o MAX_BANDWIDTH_CONDITION \o <<32>>}

\* condition, '=' or '<', value; and "max_bandwidth" alone, and "other=500".
CaveatStrings ==
  {c \o <<op>> \o v : c \in CaveatConditions, op \in {61, 60}, v \in CaveatValues}
    \cup {MAX_BANDWIDTH_CONDITION, <<111, 116, 104, 101, 114, 61, 53, 48, 48>>}

InitAgg ==
  /\ fac \in {[NoFac EXCEPT !.pc = "returned", !.result = r] :
                r \in SeqsUpTo(CaveatStrings, MaxCaveats)}
  /\ data = <<>>
  /\ v2 = V2Start
  /\ v1 = V1Start
  /\ obs = ObsStart
  /\ enc = NoEnc
  /\ chal = NoChal
  /\ hdr = NoHdr

NextAgg == GetMaxBandwidth \/ GetExpiration

SpecAgg == InitAgg /\ [][NextAgg]_vars

\* The caveats of L whose trimmed condition is the given one.
MatchesOf(L, condition) ==
  {i \in 1..Len(L) : decodeCaveat(L[i]).found /\ decodeCaveat(L[i]).condition = condition}

LastValue(L, condition) ==
  LET M == MatchesOf(L, condition)
  IN  IF M = {} THEN 0
      ELSE NumberOrZero(decodeCaveat(L[CHOOSE i \in M : \A j \in M : i >= j]).value)

Without(L, condition) ==
  SelectSeq(L, LAMBDA c : ~(decodeCaveat(c).found /\ decodeCaveat(c).condition = condition))

\* --------------------------------- the decoders run to their return value
RECURSIVE RunV2(_, _, _)
\* extractCaveatsV2 run for at most fuel passes of its loop.
RunV2(d, st, fuel) ==
  IF st.done \/ fuel = 0 THEN st ELSE RunV2(d, V2Iter(d, st), fuel - 1)

RECURSIVE RunV1(_, _, _)
RunV1(d, st, fuel) ==
  IF st.done \/ fuel = 0 THEN st ELSE RunV1(d, V1Iter(d, st), fuel - 1)

\* extractCaveatsFromMacaroon as a function of its argument; returns is FALSE when
\* the decoder is still in its loop after more passes than the buffer has bytes.
extractCaveatsFromMacaroon(base64Macaroon) ==
  LET r == base64ToBytes(base64Macaroon)
      end == IF r.bytes[1] = 2
             THEN RunV2(r.bytes, V2Start, Len(r.bytes) + 2)
             ELSE RunV1(r.bytes, V1Start, Len(r.bytes) + 2)
  IN  IF ~r.ok \/ Len(r.bytes) < 2 THEN [returns |-> TRUE, caveats |-> <<>>]
      ELSE [returns |-> end.done, caveats |-> end.caveats]

\* ------------------------------------------------------ parseL402Challenge
IsWordChar(c) ==
  (c >= 48 /\ c <= 57) \/ (c >= 65 /\ c <= 90) \/ (c >= 97 /\ c <= 122) \/ c = 95

ToLowerCase(s) == [i \in 1..Len(s) |-> IF s[i] >= 65 /\ s[i] <= 90 THEN s[i] + 32 ELSE s[i]]

\* Whether the literal lit stands in s at index i (from 1).
LitAt(s, i, lit) ==
  /\ i >= 1
  /\ i + Len(lit) - 1 <= Len(s)
  /\ \A k \in 1..Len(lit) : s[i + k - 1] = lit[k]

\* The character classes of the regular expressions: \w, \s and [^"].
InClass(class, c) ==
  CASE class = "w" -> IsWordChar(c)
    [] class = "s" -> IsWhiteSpace(c)
    [] class = "notQuote" -> c # 34

\* The first index at or after i whose character is not in the class (Len(s)+1
\* when the class runs to the end): where a greedy run starting at i stops.
RunEnd(s, i, class) ==
  LET out == {j \in i..Len(s) : ~InClass(class, s[j])}
  IN  IF out = {} THEN Len(s) + 1 ELSE CHOOSE j \in out : \A k \in out : j <= k

\* /(\w+)="([^"]*)"/ tried at index i: the word, then =", then everything up to
\* the next quote, which must exist.
PairAt(s, i) ==
  LET w == RunEnd(s, i, "w")
      q == RunEnd(s, w + 2, "notQuote")
  IN  IF w > i /\ LitAt(s, w, <<61, 34>>) /\ q <= Len(s)
      THEN [ok |-> TRUE, key |-> SubSeq(s, i, w - 1), value |-> SubSeq(s, w + 2, q - 1),
            lastIndex |-> q + 1]
      ELSE [ok |-> FALSE, key |-> <<>>, value |-> <<>>, lastIndex |-> 0]

MACAROON == <<109, 97, 99, 97, 114, 111, 111, 110>>  \* "macaroon"

INVOICE == <<105, 110, 118, 111, 105, 99, 101>>  \* "invoice"

RECURSIVE PairLoop(_, _, _, _)
\* while ((match = pairRegex.exec(challenge)) !== null): the leftmost match at or
\* after lastIndex (an index from 1 here).
PairLoop(s, lastIndex, macaroon, invoice) ==
  LET at == {i \in lastIndex..Len(s) : PairAt(s, i).ok}
  IN  IF at = {} THEN [macaroon |-> macaroon, invoice |-> invoice]
      ELSE LET m == PairAt(s, CHOOSE i \in at : \A j \in at : i <= j)
               key == ToLowerCase(m.key)
           IN  PairLoop(s, m.lastIndex,
                        IF key = MACAROON THEN m.value ELSE macaroon,
                        IF key # MACAROON /\ key = INVOICE THEN m.value ELSE invoice)

\* /^(?:L402|LSAT)\s+/i: the length of the match, 0 when there is none.
PrefixLength(header) ==
  IF /\ Len(header) >= 5
     /\ ToLowerCase(SubSeq(header, 1, 4)) \in {<<108, 52, 48, 50>>, <<108, 115, 97, 116>>}
     /\ IsWhiteSpace(header[5])
  THEN RunEnd(header, 5, "s") - 1
  ELSE 0

NullChallenge == [called |-> TRUE, returns |-> TRUE, null |-> TRUE]

\* parseL402Challenge of src/unnamed/part_000.
parseL402Challenge(header) ==
  LET challenge == SubSeq(header, PrefixLength(header) + 1, Len(header))
      p == PairLoop(challenge, 1, <<>>, <<>>)
      c == extractCaveatsFromMacaroon(p.macaroon)
  IN  IF p.macaroon = <<>> \/ p.invoice = <<>> THEN NullChallenge
      ELSE IF ~c.returns THEN [called |-> TRUE, returns |-> FALSE]
      ELSE [called |-> TRUE, returns |-> TRUE, null |-> FALSE,
            macaroon |-> p.macaroon, invoice |-> p.invoice,
            maxBandwidth |-> CaveatLoop(c.caveats, MAX_BANDWIDTH_CONDITION, 0),
            expiry |-> CaveatLoop(c.caveats, EXPIRATION_CONDITION, 0)]

L402 == <<76, 52, 48, 50>>  \* "L402"

\* /L402\s+macaroon="([^"]+)",\s*invoice="([^"]+)"/ tried at index i.
HelperMatchAt(s, i) ==
  LET a == RunEnd(s, i + 4, "s")         \* after L402\s+
      b == a + 10                                 \* after macaroon="
      c == RunEnd(s, b, "notQuote")               \* the quote that ends the macaroon
      d == RunEnd(s, c + 2, "s")         \* after ", and \s*
      e == d + 9                                  \* after invoice="
      f == RunEnd(s, e, "notQuote")               \* the quote that ends the invoice
  IN  IF /\ LitAt(s, i, L402)
         /\ a > i + 4
         /\ LitAt(s, a, MACAROON \o <<61, 34>>)
         /\ c > b /\ LitAt(s, c, <<34, 44>>)
         /\ LitAt(s, d, INVOICE \o <<61, 34>>)
         /\ f > e /\ f <= Len(s)
      THEN [ok |-> TRUE, macaroon |-> SubSeq(s, b, c - 1), invoice |-> SubSeq(s, e, f - 1)]
      ELSE [ok |-> FALSE, macaroon |-> <<>>, invoice |-> <<>>]

\* parseL402Challenge of src/src/utils/l402-helpers.ts.
parseL402ChallengeHelper(header) ==
  LET at == {i \in 1..Len(header) : HelperMatchAt(header, i).ok}
  IN  IF at = {} THEN NullChallenge
      ELSE LET m == HelperMatchAt(header, CHOOSE i \in at : \A j \in at : i <= j)
           IN  [called |-> TRUE, returns |-> TRUE, null |-> FALSE,
                macaroon |-> m.macaroon, invoice |-> m.invoice]

\* ------------------------------------------------------------ SpecChallenge
\* 'L402 invoice="v", macaroon="m"' and 'L402 macaroon="m", invoice="v"'
InvoiceFirst(m, v) ==
  L402 \o <<32>> \o INVOICE \o <<61, 34>> \o v \o <<34, 44, 32>>
       \o MACAROON \o <<61, 34>> \o m \o <<34>>

MacaroonFirst(m, v) ==
  L402 \o <<32>> \o MACAROON \o <<61, 34>> \o m \o <<34, 44, 32>>
       \o INVOICE \o <<61, 34>> \o v \o <<34>>

\* A v2 macaroon with the caveats max_bandwidth=500, max_bandwidth=250 and
\* expiration=42, in base64.
SampleMacaroon ==
  <<65, 103, 73, 66, 97, 65, 65, 67, 69, 87, 49, 104, 101, 70, 57, 105, 89, 87, 53,
    107, 100, 50, 108, 107, 100, 71, 103, 57, 78, 84, 65, 119, 65, 65, 73, 82, 98,
    87, 70, 52, 88, 50, 74, 104, 98, 109, 82, 51, 97, 87, 82, 48, 97, 68, 48, 121,
    78, 84, 65, 65, 65, 103, 49, 108, 101, 72, 66, 112, 99, 109, 70, 48, 97, 87, 57,
    117, 80, 84, 81, 121, 65, 65, 65, 71, 65, 88, 77, 61>>

\* "AAA=", the sample macaroon, "A-_"
ChallengeMacaroons == {<<65, 65, 65, 61>>, SampleMacaroon, <<65, 45, 95>>}

\* "abc", "lnbc1 x, y", "macaroon="
ChallengeInvoices ==
  {<<97, 98, 99>>, <<108, 110, 98, 99, 49, 32, 120, 44, 32, 121>>, MACAROON \o <<61>>}

Parsers == {"part_000", "l402-helpers"}

Orders == {"invoiceFirst", "macaroonFirst"}

InitChallenge ==
  /\ chal \in {[macaroon |-> m, invoice |-> v,
                invoiceFirst |-> InvoiceFirst(m, v), macaroonFirst |-> MacaroonFirst(m, v),
                parsed |-> [p \in Parsers \X Orders |-> NotCalled]] :
                 m \in ChallengeMacaroons, v \in ChallengeInvoices}
  /\ data = <<>>
  /\ v2 = V2Start
  /\ v1 = V1Start
  /\ fac = NoFac
  /\ obs = ObsStart
  /\ enc = NoEnc
  /\ hdr = NoHdr

HeaderOf(order) == IF order = "invoiceFirst" THEN chal.invoiceFirst ELSE chal.macaroonFirst

ParseChallenge ==
  \E o \in Orders :
    /\ ~chal.parsed[<<"part_000", o>>].called
    /\ chal' = [chal EXCEPT !.parsed[<<"part_000", o>>] = parseL402Challenge(HeaderOf(o))]
    /\ UNCHANGED <<data, v2, v1, fac, obs, enc, hdr>>

ParseChallengeHelper ==
  \E o \in Orders :
    /\ ~chal.parsed[<<"l402-helpers", o>>].called
    /\ chal' = [chal EXCEPT !.parsed[<<"l402-helpers", o>>] =
                              parseL402ChallengeHelper(HeaderOf(o))]
    /\ UNCHANGED <<data, v2, v1, fac, obs, enc, hdr>>

NextChallenge == ParseChallenge \/ ParseChallengeHelper

SpecChallenge == InitChallenge /\ [][NextChallenge]_vars

OrderIndependent(p) ==
  LET a == chal.parsed[<<p, "invoiceFirst">>]
      b == chal.parsed[<<p, "macaroonFirst">>]
  IN  (a.called /\ b.called) => (a = b /\ a.returns /\ ~a.null)

\* --------------------------------------------------------- applyL402Header
\* A header collection is a set of <<name, value>> pairs with one pair per name.
SetHeader(headers, name, value) ==
  {h \in headers : h[1] # name} \cup {<<name, value>>}

\* `L402 ${token.credential}`
AuthorizationValue(token) == L402 \o <<32>> \o token.credential

\* applyL402Header skipping a token from the instant of its expiry on.
applyL402HeaderStrict(context, token, now) ==
  IF ~token.null /\ token.credential # <<>>
  THEN IF token.hasExpiry /\ token.expiry # 0 /\ now >= token.expiry
       THEN context
       ELSE [hasHeaders |-> TRUE,
             headers |-> SetHeader(IF context.hasHeaders THEN context.headers ELSE {},
                                   "Authorization", AuthorizationValue(token))]
  ELSE context

\* applyL402Header of src/unnamed/part_000: the context after the call at time now.
applyL402Header(context, token, now) ==
  IF ~token.null /\ token.credential # <<>>
  THEN IF token.hasExpiry /\ token.expiry # 0 /\ now > token.expiry
       THEN context
       ELSE [hasHeaders |-> TRUE,
             headers |-> SetHeader(IF context.hasHeaders THEN context.headers ELSE {},
                                   "Authorization", AuthorizationValue(token))]
  ELSE context

\* applyL402Header of src/src/utils/l402-helpers.ts.
applyL402HeaderHelper(context, token, now) ==
  IF ~token.null /\ token.credential # <<>>
  THEN IF token.hasExpiry /\ token.expiry # 0 /\ now > token.expiry
       THEN context
       ELSE [hasHeaders |-> TRUE,
             headers |-> SetHeader(IF context.hasHeaders THEN context.headers ELSE {},
                                   "Authorization", AuthorizationValue(token))]
  ELSE context

MaxNow == 3

MaxCalls == 2

\* "abc:def"
Credentials == {<<>>, <<97, 98, 99, 58, 100, 101, 102>>}

Tokens ==
  {NoToken} \cup
  {[null |-> FALSE, credential |-> c, hasExpiry |-> FALSE, expiry |-> 0] : c \in Credentials} \cup
  {[null |-> FALSE, credential |-> c, hasExpiry |-> TRUE, expiry |-> e] :
     c \in Credentials, e \in 0..MaxNow}

\* No header collection, an empty one, one with another header, one that already
\* carries an Authorization header.
Contexts ==
  {NoContext,
   [hasHeaders |-> TRUE, headers |-> {}],
   [hasHeaders |-> TRUE, headers |-> {<<"Range", <<48, 45>>>>}],
   [hasHeaders |-> TRUE, headers |-> {<<"Range", <<48, 45>>>>, <<"Authorization", <<120>>>>}]}

InitHeader ==
  /\ hdr \in {[context |-> c, token |-> t, now |-> 0, before |-> c, calls |-> 0] :
                c \in Contexts, t \in Tokens}
  /\ data = <<>>
  /\ v2 = V2Start
  /\ v1 = V1Start
  /\ fac = NoFac
  /\ obs = ObsStart
  /\ enc = NoEnc
  /\ chal = NoChal

ApplyL402Header ==
  \E now \in 1..MaxNow :
    /\ hdr.calls < MaxCalls
    /\ hdr' = [hdr EXCEPT !.context = applyL402Header(hdr.context, hdr.token, now),
                          !.before = hdr.context, !.now = now, !.calls = @ + 1]
    /\ UNCHANGED <<data, v2, v1, fac, obs, enc, chal>>

ApplyL402HeaderHelper ==
  \E now \in 1..MaxNow :
    /\ hdr.calls < MaxCalls
    /\ hdr' = [hdr EXCEPT !.context = applyL402HeaderHelper(hdr.context, hdr.token, now),
                          !.before = hdr.context, !.now = now, !.calls = @ + 1]
    /\ UNCHANGED <<data, v2, v1, fac, obs, enc, chal>>

NextHeader == ApplyL402Header \/ ApplyL402HeaderHelper

SpecHeader == InitHeader /\ [][NextHeader]_vars

HeaderWritten ==
  /\ hdr.context.hasHeaders
  /\ hdr.context.headers =
       SetHeader(IF hdr.before.hasHeaders THEN hdr.before.headers ELSE {},
                 "Authorization", AuthorizationValue(hdr.token))

HeaderEffect(valid) ==
  hdr.calls > 0 =>
    IF valid THEN HeaderWritten ELSE hdr.context = hdr.before

\* ================================================================== claims
\* ----------------------------------------------------------------------- C1
\* C1: every decode terminates: the loop of extractCaveatsV2 makes no more
\* passes than the buffer has bytes, for every buffer, varints of five or more
\* bytes included.
C1_IterationsBounded == obs.iters <= Len(data)

\* ----------------------------------------------------------------------- C2
\* C2: the decode of any prefix of a well-formed v2 macaroon with caveat list L
\* returns a prefix of L: never an empty, partial or extra string.
C2_TruncationGivesPrefix == v2.done => IsPrefix(v2.caveats, enc.caveats)

\* ----------------------------------------------------------------------- C3
\* C3: every index extractCaveatsV2, readVarint and bytesToString read the
\* buffer at lies in 0..length-1, and the read position is never negative, for
\* every buffer, those whose field length overflows 32 bits included.
C3_ReadsInBounds == v2.pos >= 0 /\ ~obs.oob

\* ----------------------------------------------------------------------- C4
\* C4: extractCaveatsFromMacaroon is total: a call that has reached a decoder
\* goes on to return (no pass of the loop leaves the decoder where it was), and
\* when base64 decoding fails or gives fewer than 2 bytes the list returned is
\* empty and both getters return 0.
C4_FacadeTotal ==
  [][/\ (fac.pc = "v2" /\ ~v2.done) => v2' # v2
     /\ (fac'.pc = "returned" /\ (fac'.threw \/ Len(data') < 2)) =>
          /\ fac'.result = <<>>
          /\ "maxBandwidth" \in fac'.got => fac'.maxBandwidth = 0
          /\ "expiration" \in fac'.got => fac'.expiration = 0]_vars

\* ----------------------------------------------------------------------- C5
\* C5: each getter returns the value of the last caveat of its condition, 0
\* when there is none, and the caveats of the other condition do not move it.
C5_LastMatchWins ==
  /\ "maxBandwidth" \in fac.got =>
       /\ fac.maxBandwidth = LastValue(fac.result, MAX_BANDWIDTH_CONDITION)
       /\ fac.maxBandwidth = LastValue(Without(fac.result, EXPIRATION_CONDITION),
                                       MAX_BANDWIDTH_CONDITION)
  /\ "expiration" \in fac.got =>
       /\ fac.expiration = LastValue(fac.result, EXPIRATION_CONDITION)
       /\ fac.expiration = LastValue(Without(fac.result, MAX_BANDWIDTH_CONDITION),
                                     EXPIRATION_CONDITION)

\* Both getters have run on [max_bandwidth=500, max_bandwidth=250, ...]-like
\* input: two caveats of one condition with different values, the last one returned.
C5_Witness ==
  /\ fac.got = {"maxBandwidth", "expiration"}
  /\ \E i, j \in MatchesOf(fac.result, MAX_BANDWIDTH_CONDITION) :
       /\ i < j
       /\ NumberOrZero(decodeCaveat(fac.result[i]).value)
            # NumberOrZero(decodeCaveat(fac.result[j]).value)
       /\ fac.maxBandwidth = NumberOrZero(decodeCaveat(fac.result[j]).value)
       /\ fac.maxBandwidth # 0

\* ----------------------------------------------------------------------- C6
\* C6: the decode of a whole encoded v2 macaroon (header section, EOS, caveat
\* sections, EOS, signature) returns exactly its caveat list, in order.
C6_RoundTrip == (v2.done /\ enc.cut = Len(enc.full)) => v2.caveats = enc.caveats

\* A whole macaroon with two caveats, one of them longer than 127 bytes (a
\* two-byte varint length), has been decoded.
C6_Witness ==
  /\ v2.done
  /\ enc.cut = Len(enc.full)
  /\ Len(enc.caveats) = MaxCaveats
  /\ \E i \in 1..Len(enc.caveats) : Len(enc.caveats[i]) > 127
  /\ v2.caveats = enc.caveats

\* ----------------------------------------------------------------------- C7
\* C7: both definitions of parseL402Challenge return the same non-null result
\* whichever of macaroon="..." and invoice="..." comes first in the header.
C7_OrderIndependent == \A p \in Parsers : OrderIndependent(p)

V1Rejected(d, pos) ==
  LET p == bytesToString(d, pos, 4)
      n == HexPrefixValue(p, 0)
  IN  (\E i \in 1..4 : ~IsHexDigit(p[i])) \/ n < 9 \/ pos + n > Len(d)

\* C9: a pass of extractCaveatsV1 that meets such a packet ends the decode with
\* the caveats collected so far.
C9_RejectsBadPacket ==
  [][(~v1.done /\ v1.pos + 8 < Len(data) /\ V1Rejected(data, v1.pos))
       => (v1'.done /\ v1'.caveats = v1.caveats)]_vars

\* ---------------------------------------------------------------------- C10
Phase(st) == IF st.done THEN 3 ELSE IF st.isFirstSection THEN 1 ELSE 2

\* C10: extractCaveatsV2 moves only Header (1) -> CaveatSection (2) -> Done (3);
\* the caveat list changes only by the append of an identifier field read in
\* CaveatSection, after an EOS field and before any signature or overrunning
\* field; once such a field has been read the decoder is Done.
C10_StateMachine ==
  [][/\ Phase(v2') >= Phase(v2)
     /\ v2'.caveats # v2.caveats =>
          /\ Phase(v2) = 2
          /\ obs.eosSeen /\ ~obs.endSeen
          /\ V2Field(data, v2.pos).type = FIELD_IDENTIFIER
          /\ SubSeq(v2'.caveats, 1, Len(v2.caveats)) = v2.caveats
          /\ Len(v2'.caveats) = Len(v2.caveats) + 1
     /\ obs'.endSeen => Phase(v2') = 3
     /\ Phase(v2) = 3 => v2'.caveats = v2.caveats]_vars

\* A decode that captured a caveat and stopped at a signature field with bytes
\* still following it.
C10_Witness ==
  /\ v2.done
  /\ obs.eosSeen /\ obs.endSeen
  /\ Len(v2.caveats) >= 1
  /\ v2.pos < Len(data)
====
